---- MODULE Spec2Model ----
(***************************************************************************)
(* Model of scripts/update-grafana-panel-titles.py: the expression         *)
(* collector, the descriptor classifier, the panel title updater and the   *)
(* batch processor (main) over a directory of dashboard documents.         *)
(*                                                                         *)
(* Python strings are sequences of one-character strings; the em dash      *)
(* U+2014 of TITLE_SEP is the single character "U+2014".  JSON values are  *)
(* records tagged with their kind.                                         *)
(***************************************************************************)
EXTENDS Integers, Sequences, FiniteSets, TLC

\* ------------------------------------------------------------------------
\* Python str primitives used by the script
\* ------------------------------------------------------------------------

LowerSeq == <<"a","b","c","d","e","f","g","h","i","j","k","l","m",
              "n","o","p","q","r","s","t","u","v","w","x","y","z">>

UpperSeq == <<"A","B","C","D","E","F","G","H","I","J","K","L","M",
              "N","O","P","Q","R","S","T","U","V","W","X","Y","Z">>

Lower == {LowerSeq[i] : i \in 1..Len(LowerSeq)}

Upper == {UpperSeq[i] : i \in 1..Len(UpperSeq)}

Digit == {"0","1","2","3","4","5","6","7","8","9"}

\* characters str.strip() removes (those of them the model's strings hold)
Whitespace == {" ", "\t", "\n"}

SetMin(S) == CHOOSE m \in S : \A k \in S : m <= k

SetMax(S) == CHOOSE m \in S : \A k \in S : m >= k

\* sub in s
Contains(s, sub) ==
    \E i \in 0..(Len(s) - Len(sub)) : \A j \in 1..Len(sub) : s[i + j] = sub[j]

\* s.endswith(suf)
EndsWith(s, suf) ==
    /\ Len(suf) <= Len(s)
    /\ \A j \in 1..Len(suf) : s[Len(s) - Len(suf) + j] = suf[j]

LowerChar(c) ==
    IF c \in Upper THEN LowerSeq[CHOOSE i \in 1..Len(UpperSeq) : UpperSeq[i] = c]
    ELSE c

\* s.lower()
StrLower(s) == [i \in 1..Len(s) |-> LowerChar(s[i])]

\* s.strip()
Strip(s) ==
    LET keep == {i \in 1..Len(s) : s[i] \notin Whitespace}
    IN  IF keep = {} THEN <<>> ELSE SubSeq(s, SetMin(keep), SetMax(keep))

\* "\n".join(strs)
RECURSIVE JoinLines(_)
JoinLines(strs) ==
    IF Len(strs) = 0 THEN <<>>
    ELSE IF Len(strs) = 1 THEN strs[1]
    ELSE strs[1] \o <<"\n">> \o JoinLines(Tail(strs))

\* ------------------------------------------------------------------------
\* Module constants
\* ------------------------------------------------------------------------

TITLE_SEP == <<" ","U+2014"," ">>

\* METRIC_RE = \b[a-zA-Z_:][a-zA-Z0-9_:]*\b
IsWordChar(c) == c \in Lower \cup Upper \cup Digit \cup {"_"}

MetricStartChar(c) == c \in Lower \cup Upper \cup {"_", ":"}

MetricContChar(c) == c \in Lower \cup Upper \cup Digit \cup {"_", ":"}

WordAt(s, i) == i >= 1 /\ i <= Len(s) /\ IsWordChar(s[i])

\* \b holds between s[i] and s[i+1] (i = 0: the start, i = Len(s): the end)
WordBoundary(s, i) == WordAt(s, i) # WordAt(s, i + 1)

\* index of the last character of the longest run of [a-zA-Z0-9_:] that
\* goes on from position p
RECURSIVE MetricRunEnd(_, _)
MetricRunEnd(s, p) ==
    IF p < Len(s) /\ MetricContChar(s[p + 1]) THEN MetricRunEnd(s, p + 1) ELSE p

\* index of the last character of the match of METRIC_RE that starts at p
\* (greedy, backtracking to the longest prefix that ends at a \b); 0: no match
MetricMatchEnd(s, p) ==
    IF p <= Len(s) /\ MetricStartChar(s[p]) /\ WordBoundary(s, p - 1)
    THEN LET ends == {e \in p..MetricRunEnd(s, p) : WordBoundary(s, e)}
         IN  IF ends = {} THEN 0 ELSE SetMax(ends)
    ELSE 0

\* METRIC_RE.findall(s), scanning from position p: the non-overlapping
\* matches from left to right
RECURSIVE METRIC_RE_findall_from(_, _)
METRIC_RE_findall_from(s, p) ==
    IF p > Len(s) THEN <<>>
    ELSE LET e == MetricMatchEnd(s, p)
         IN  IF e = 0 THEN METRIC_RE_findall_from(s, p + 1)
             ELSE <<SubSeq(s, p, e)>> \o METRIC_RE_findall_from(s, e + 1)

METRIC_RE_findall(s) == METRIC_RE_findall_from(s, 1)

\* ------------------------------------------------------------------------
\* String literals of _descriptor_from_exprs
\* ------------------------------------------------------------------------

S_histogram_quantile == <<"h","i","s","t","o","g","r","a","m","_","q","u","a","n","t","i","l","e">>

S_time_since == <<"t","i","m","e","(",")"," ","-"," ","o","n","(",")"," ","(">>

S_finalization_gap == <<"c","o","n","s","e","n","s","u","s","_","t","i","p","_","h","e","i","g","h","t"," ","-"," ","c","o","n","s","e","n","s","u","s","_","f","i","n","a","l","i","z","e","d","_","h","e","i","g","h","t">>

S_rate == <<"r","a","t","e","(">>

S_irate == <<"i","r","a","t","e","(">>

S_throughput == <<"t","h","r","o","u","g","h","p","u","t">>

S_tps == <<"t","p","s">>

S_errors == <<"e","r","r","o","r","s">>

S_fail == <<"f","a","i","l">>

S_peers == <<"p","e","e","r","s">>

S_connections == <<"c","o","n","n","e","c","t","i","o","n","s">>

S_queue == <<"q","u","e","u","e">>

S_pending == <<"p","e","n","d","i","n","g">>

S__pending == <<"_","p","e","n","d","i","n","g">>

S__height == <<"_","h","e","i","g","h","t">>

S__slot == <<"_","s","l","o","t">>

S__epoch == <<"_","e","p","o","c","h">>

D_p95_latency == <<"p","9","5"," ","l","a","t","e","n","c","y">>

D_time_since_last == <<"t","i","m","e"," ","s","i","n","c","e"," ","l","a","s","t">>

D_finalization_gap == <<"f","i","n","a","l","i","z","a","t","i","o","n"," ","g","a","p">>

D_events_sec == <<"e","v","e","n","t","s","/","s","e","c">>

D_tx_sec == <<"t","x","/","s","e","c">>

D_error_rate == <<"e","r","r","o","r"," ","r","a","t","e">>

D_peer_count == <<"p","e","e","r"," ","c","o","u","n","t">>

D_conn_count == <<"c","o","n","n"," ","c","o","u","n","t">>

D_queue_depth == <<"q","u","e","u","e"," ","d","e","p","t","h">>

D_height == <<"h","e","i","g","h","t">>

D_slot == <<"s","l","o","t">>

D_epoch == <<"e","p","o","c","h">>

D_current == <<"c","u","r","r","e","n","t">>

\* ------------------------------------------------------------------------
\* Data model: JSON values as the script sees them after json.load
\* ------------------------------------------------------------------------

\* Optional[str]
None == [some |-> FALSE, val |-> <<>>]

Some(s) == [some |-> TRUE, val |-> s]

\* a scalar JSON value under a key: the key is absent, null, a number, a string
Absent == [kind |-> "absent", str |-> <<>>, num |-> 0]

Null == [kind |-> "null", str |-> <<>>, num |-> 0]

Num(n) == [kind |-> "num", str |-> <<>>, num |-> n]

Str(s) == [kind |-> "str", str |-> s, num |-> 0]

\* a target: a JSON object with an optional "expr", or a value that is no object
Target(expr) == [kind |-> "obj", expr |-> expr]

NonObjectTarget == [kind |-> "num", expr |-> Absent]

\* the value under "targets": absent, null, a number, or a list of targets
NoTargets == [kind |-> "absent", num |-> 0, items |-> <<>>]

NullTargets == [kind |-> "null", num |-> 0, items |-> <<>>]

NumTargets(n) == [kind |-> "num", num |-> n, items |-> <<>>]

TargetList(ts) == [kind |-> "list", num |-> 0, items |-> ts]

Panel(type, title, targets) == [type |-> type, title |-> title, targets |-> targets]

\* ------------------------------------------------------------------------
\* _collect_exprs
\* ------------------------------------------------------------------------

\* Python truth value of panel.get("targets")
TargetsTruthy(tv) ==
    \/ tv.kind = "num" /\ tv.num # 0
    \/ tv.kind = "list" /\ tv.items # <<>>

\* the loop body over the targets from index i on, appending to acc;
\* target.get raises AttributeError on a target that is no object
RECURSIVE CollectFrom(_, _, _)
CollectFrom(items, i, acc) ==
    IF i > Len(items) THEN [raised |-> FALSE, exprs |-> acc]
    ELSE IF items[i].kind # "obj" THEN [raised |-> TRUE, exprs |-> <<>>]
    ELSE LET expr == items[i].expr
         IN  IF expr.kind = "str" /\ Strip(expr.str) # <<>>
             THEN CollectFrom(items, i + 1, Append(acc, Strip(expr.str)))
             ELSE CollectFrom(items, i + 1, acc)

\* [raised, exprs]: raised when iterating the targets or target.get raises
_collect_exprs(panel) ==
    LET tv == panel.targets
    IN  IF ~TargetsTruthy(tv) THEN [raised |-> FALSE, exprs |-> <<>>]
        ELSE IF tv.kind # "list" THEN [raised |-> TRUE, exprs |-> <<>>]
        ELSE CollectFrom(tv.items, 1, <<>>)

\* ------------------------------------------------------------------------
\* _descriptor_from_exprs
\* ------------------------------------------------------------------------

AnyExprContains(exprs, sub) == \E i \in 1..Len(exprs) : Contains(exprs[i], sub)

\* {m for m in METRIC_RE.findall(all_expr) if "_" in m or ":" in m}
MetricTokens(all_expr) ==
    LET found == METRIC_RE_findall(all_expr)
    IN  {found[i] : i \in {j \in 1..Len(found) :
                              Contains(found[j], <<"_">>) \/ Contains(found[j], <<":">>)}}

\* lines 44-73: the title keywords, then the metric names, then "current"
TitleOrMetricDescriptor(title, all_expr) ==
    LET lower_title == StrLower(title)
        metrics == MetricTokens(all_expr)
    IN  IF Contains(lower_title, S_throughput) \/ Contains(lower_title, S_tps)
             THEN Some(D_tx_sec)
        ELSE IF Contains(lower_title, S_errors) \/ Contains(lower_title, S_fail)
             THEN Some(D_error_rate)
        ELSE IF Contains(lower_title, S_peers) THEN Some(D_peer_count)
        ELSE IF Contains(lower_title, S_connections) THEN Some(D_conn_count)
        ELSE IF Contains(lower_title, S_queue) \/ Contains(lower_title, S_pending)
             THEN Some(D_queue_depth)
        ELSE IF \E m \in metrics : EndsWith(m, S__pending) THEN Some(D_queue_depth)
        ELSE IF \E m \in metrics : EndsWith(m, S__height) THEN Some(D_height)
        ELSE IF \E m \in metrics : EndsWith(m, S__slot) THEN Some(D_slot)
        ELSE IF \E m \in metrics : EndsWith(m, S__epoch) THEN Some(D_epoch)
        ELSE IF \E m \in metrics : Contains(m, S_connections) THEN Some(D_conn_count)
        ELSE Some(D_current)

\* the rate rule tried before the histogram_quantile rule
_descriptor_from_exprs_rate_first(title, exprs) ==
    IF exprs = <<>> THEN None
    ELSE
    LET all_expr == JoinLines(exprs)
    IN  IF AnyExprContains(exprs, S_rate) \/ AnyExprContains(exprs, S_irate)
             THEN Some(D_events_sec)
        ELSE IF Contains(all_expr, S_histogram_quantile) THEN Some(D_p95_latency)
        ELSE IF Contains(all_expr, S_time_since) THEN Some(D_time_since_last)
        ELSE IF Contains(all_expr, S_finalization_gap) THEN Some(D_finalization_gap)
        ELSE TitleOrMetricDescriptor(title, all_expr)

_descriptor_from_exprs(title, exprs) ==
    IF exprs = <<>> THEN None
    ELSE
    LET all_expr == JoinLines(exprs)
    IN  IF Contains(all_expr, S_histogram_quantile) THEN Some(D_p95_latency)
        ELSE IF Contains(all_expr, S_time_since) THEN Some(D_time_since_last)
        ELSE IF Contains(all_expr, S_finalization_gap) THEN Some(D_finalization_gap)
        ELSE IF AnyExprContains(exprs, S_rate) \/ AnyExprContains(exprs, S_irate)
             THEN Some(D_events_sec)
        ELSE TitleOrMetricDescriptor(title, all_expr)

\* ------------------------------------------------------------------------
\* _update_panel_title
\* ------------------------------------------------------------------------

\* Python truth value of an Optional[str]: "if not desc"
Truthy(desc) == desc.some /\ desc.val # <<>>

\* the outcome of a call: [raised, ret, panel], the panel as the call leaves it
NoChange(panel) == [raised |-> FALSE, ret |-> FALSE, panel |-> panel]

Raised(panel) == [raised |-> TRUE, ret |-> FALSE, panel |-> panel]

Changed(panel) == [raised |-> FALSE, ret |-> TRUE, panel |-> panel]

IsRow(panel) == panel.type.kind = "str" /\ panel.type.str = <<"r","o","w">>

\* the title is trimmed before the separator and the descriptor are appended
Annotate_stripped_title(panel) ==
    LET title == panel.title.str
        c == _collect_exprs(panel)
        desc == _descriptor_from_exprs(title, c.exprs)
    IN  IF c.raised THEN Raised(panel)
        ELSE IF ~Truthy(desc) THEN NoChange(panel)
        ELSE Changed([panel EXCEPT !.title = Str(Strip(title) \o TITLE_SEP \o desc.val)])

\* the trimmed expressions are stored back into the targets
Annotate_normalises_exprs(panel) ==
    LET title == panel.title.str
        c == _collect_exprs(panel)
        desc == _descriptor_from_exprs(title, c.exprs)
        trimmed == [i \in 1..Len(panel.targets.items) |->
                      [panel.targets.items[i] EXCEPT
                         !.expr = IF @.kind = "str" THEN Str(Strip(@.str)) ELSE @]]
    IN  IF c.raised THEN Raised(panel)
        ELSE IF ~Truthy(desc) THEN NoChange(panel)
        ELSE Changed([panel EXCEPT !.title = Str(title \o TITLE_SEP \o desc.val),
                                   !.targets.items = trimmed])

\* lines 87-93, for a panel whose title is a string: collect, classify, and
\* assign the new title; raised when _collect_exprs raises (before any
\* assignment)
Annotate(panel) ==
    LET title == panel.title.str
        c == _collect_exprs(panel)
        desc == _descriptor_from_exprs(title, c.exprs)
    IN  IF c.raised THEN Raised(panel)
        ELSE IF ~Truthy(desc) THEN NoChange(panel)
        ELSE Changed([panel EXCEPT !.title = Str(title \o TITLE_SEP \o desc.val)])

\* the separator check left out
_update_panel_title_no_sep_guard(panel) ==
    LET title == panel.title
    IN  IF IsRow(panel) THEN NoChange(panel)
        ELSE IF title.kind # "str" \/ Strip(title.str) = <<>> THEN NoChange(panel)
        ELSE Annotate(panel)

\* the title tested for emptiness without trimming it
_update_panel_title_no_strip(panel) ==
    LET title == panel.title
    IN  IF IsRow(panel) THEN NoChange(panel)
        ELSE IF title.kind # "str" \/ title.str = <<>> THEN NoChange(panel)
        ELSE IF Contains(title.str, TITLE_SEP) THEN NoChange(panel)
        ELSE Annotate(panel)

_update_panel_title(panel) ==
    LET title == panel.title
    IN  IF IsRow(panel) THEN NoChange(panel)
        ELSE IF title.kind # "str" \/ Strip(title.str) = <<>> THEN NoChange(panel)
        ELSE IF Contains(title.str, TITLE_SEP) THEN NoChange(panel)
        ELSE Annotate(panel)

\* ------------------------------------------------------------------------
\* Inputs of the classifier specification
\* ------------------------------------------------------------------------

MaxExprs == 2

ClsTitles == {
    <<"X">>,
    <<"T","P","S"," ","e","r","r","o","r","s">>,
    <<"T","h","r","o","u","g","h","p","u","t">>,
    <<"E","r","r","o","r","s">>,
    <<"F","a","i","l","e","d"," ","P","e","e","r","s">>,
    <<"P","e","e","r","s"," ","c","o","n","n","e","c","t","i","o","n","s">>,
    <<"C","o","n","n","e","c","t","i","o","n","s"," ","q","u","e","u","e">>,
    <<"Q","u","e","u","e">>,
    <<"P","e","n","d","i","n","g">>,
    <<"h","t","t","p","s">>,
    <<>>}

ClsExprs == {
    <<"h","i","s","t","o","g","r","a","m","_","q","u","a","n","t","i","l","e","(","0",".","9",","," ","r","a","t","e","(","a","_","b","[","5","m","]",")",")">>,
    <<"t","i","m","e","(",")"," ","-"," ","o","n","(",")"," ","(","a","_","t","s",")">>,
    <<"c","o","n","s","e","n","s","u","s","_","t","i","p","_","h","e","i","g","h","t"," ","-"," ","c","o","n","s","e","n","s","u","s","_","f","i","n","a","l","i","z","e","d","_","h","e","i","g","h","t">>,
    <<"r","a","t","e","(","a","_","b","[","1","m","]",")">>,
    <<"i","r","a","t","e","(","c","_","d","[","1","m","]",")">>,
    <<"m","e","m","p","o","o","l","_","t","x","s","_","p","e","n","d","i","n","g">>,
    <<"a","_","h","e","i","g","h","t">>,
    <<"b","_","s","l","o","t">>,
    <<"c","_","e","p","o","c","h">>,
    <<"p","2","p","_","c","o","n","n","e","c","t","i","o","n","s","_","o","p","e","n">>,
    <<"u","p">>,
    <<"x","_","s","l","o","t",":","s","u","m">>,
    <<"9","_","e","p","o","c","h">>}

SeqsUpTo(S, n) == UNION {[1..k -> S] : k \in 0..n}

\* ------------------------------------------------------------------------
\* json.load / json.dump: string escaping of the stored text
\* ------------------------------------------------------------------------

\* py_encode_basestring_ascii on one character (ensure_ascii is the default)
JsonEscapeChar(c) ==
    IF c = "\"" THEN <<"\\", "\"">>
    ELSE IF c = "\\" THEN <<"\\", "\\">>
    ELSE IF c = "\n" THEN <<"\\", "n">>
    ELSE IF c = "\t" THEN <<"\\", "t">>
    ELSE IF c = "U+2014" THEN <<"\\", "u", "2", "0", "1", "4">>
    ELSE <<c>>

\* the text json.dump writes between the quotes for the string s, from
\* position p on
RECURSIVE JsonEncodeFrom(_, _)
JsonEncodeFrom(s, p) ==
    IF p > Len(s) THEN <<>> ELSE JsonEscapeChar(s[p]) \o JsonEncodeFrom(s, p + 1)

JsonEncodeStr(s) == JsonEncodeFrom(s, 1)

\* the string json.load reads from the text t between two quotes, from
\* position p on (t is a valid string body: every backslash starts one of the
\* escapes above; a character outside ASCII may also stand unescaped)
RECURSIVE JsonDecodeFrom(_, _)
JsonDecodeFrom(t, p) ==
    IF p > Len(t) THEN <<>>
    ELSE IF t[p] = "\\" /\ p < Len(t)
    THEN IF t[p + 1] = "u"
         THEN <<"U+2014">> \o JsonDecodeFrom(t, p + 6)
         ELSE <<(IF t[p + 1] = "n" THEN "\n"
                 ELSE IF t[p + 1] = "t" THEN "\t" ELSE t[p + 1])>>
              \o JsonDecodeFrom(t, p + 2)
    ELSE <<t[p]>> \o JsonDecodeFrom(t, p + 1)

JsonDecodeStr(t) == JsonDecodeFrom(t, 1)

DecodeValue(v) == IF v.kind = "str" THEN Str(JsonDecodeStr(v.str)) ELSE v

EncodeValue(v) == IF v.kind = "str" THEN Str(JsonEncodeStr(v.str)) ELSE v

DecodeTargets(tv) ==
    [tv EXCEPT !.items = [i \in 1..Len(tv.items) |->
                            [tv.items[i] EXCEPT !.expr = DecodeValue(@)]]]

EncodeTargets(tv) ==
    [tv EXCEPT !.items = [i \in 1..Len(tv.items) |->
                            [tv.items[i] EXCEPT !.expr = EncodeValue(@)]]]

DecodePanel(p) ==
    Panel(DecodeValue(p.type), DecodeValue(p.title), DecodeTargets(p.targets))

EncodePanel(p) ==
    Panel(EncodeValue(p.type), EncodeValue(p.title), EncodeTargets(p.targets))

\* a stored file: valid JSON text of an object with an optional "panels" list
\* (its strings as escaped text), or text json.load cannot parse
File(hasPanels, panels) == [valid |-> TRUE, hasPanels |-> hasPanels, panels |-> panels]

Unparsable == [valid |-> FALSE, hasPanels |-> FALSE, panels |-> <<>>]

\* the in-memory document
Dash(hasPanels, panels) == [hasPanels |-> hasPanels, panels |-> panels]

NoDash == Dash(FALSE, <<>>)

\* json.load(f): [raised, dash]
json_load(file) ==
    IF ~file.valid THEN [raised |-> TRUE, dash |-> NoDash]
    ELSE [raised |-> FALSE,
          dash |-> Dash(file.hasPanels,
                        [i \in 1..Len(file.panels) |-> DecodePanel(file.panels[i])])]

\* json.dump(dash, f, indent=2, sort_keys=False) and the trailing newline
json_dump(dash) ==
    File(dash.hasPanels, [i \in 1..Len(dash.panels) |-> EncodePanel(dash.panels[i])])

\* dash.get("panels") or []
PanelsOf(dash) == IF dash.hasPanels THEN dash.panels ELSE <<>>

\* ------------------------------------------------------------------------
\* glob.glob and sorted
\* ------------------------------------------------------------------------

\* the lists glob.glob may return for a set of paths: any order
GlobResults(S) ==
    {g \in [1..Cardinality(S) -> S] : \A a \in S : \E i \in 1..Cardinality(S) : g[i] = a}

RECURSIVE InsertSorted(_, _)
InsertSorted(s, x) ==
    IF s = <<>> THEN <<x>>
    ELSE IF x <= Head(s) THEN <<x>> \o s
    ELSE <<Head(s)>> \o InsertSorted(Tail(s), x)

\* the paths left in glob order
Sorted_glob_order(g) == g

\* sorted(g)
RECURSIVE Sorted(_)
Sorted(g) == IF g = <<>> THEN <<>> ELSE InsertSorted(Sorted(Tail(g)), Head(g))

\* ------------------------------------------------------------------------
\* Inputs of the batch specification: stored panels and documents
\* (strings as they stand in the files: escaped JSON text)
\* ------------------------------------------------------------------------

P_latency ==
    Panel(Str(<<"g","r","a","p","h">>),
          Str(<<"R","e","q","u","e","s","t"," ","L","a","t","e","n","c","y">>),
          TargetList(<<Target(Str(<<"h","i","s","t","o","g","r","a","m","_","q","u","a","n","t","i","l","e","(","0",".","9","5",","," ","r","a","t","e","(","a","_","b","[","5","m","]",")",")">>))>>))

P_peers ==
    Panel(Str(<<"g","r","a","p","h">>),
          Str(<<"A","c","t","i","v","e"," ","P","e","e","r","s">>),
          TargetList(<<Target(Str(<<" ","s","u","m","(","n","o","d","e","_","p","e","e","r","s","_","c","o","n","n","e","c","t","e","d",")"," ">>))>>))

P_row ==
    Panel(Str(<<"r","o","w">>),
          Str(<<"C","o","n","s","e","n","s","u","s">>),
          NoTargets)

P_notes ==
    Panel(Str(<<"t","e","x","t">>),
          Str(<<"N","o","t","e","s">>),
          NoTargets)

P_annotated_raw ==
    Panel(Str(<<"g","r","a","p","h">>),
          Str(<<"P","e","e","r","s"," ","U+2014"," ","p","e","e","r"," ","c","o","u","n","t">>),
          TargetList(<<Target(Str(<<"n","o","d","e","_","p","e","e","r","s">>))>>))

P_annotated_escaped ==
    Panel(Str(<<"g","r","a","p","h">>),
          Str(<<"P","e","e","r","s"," ","\\","u","2","0","1","4"," ","p","e","e","r"," ","c","o","u","n","t">>),
          TargetList(<<Target(Str(<<"n","o","d","e","_","p","e","e","r","s">>))>>))

P_backslash ==
    Panel(Str(<<"g","r","a","p","h">>),
          Str(<<"A"," ","\\","\\","u","2","0","1","4"," ","B">>),
          TargetList(<<Target(Str(<<"u","p">>))>>))

P_malformed ==
    Panel(Str(<<"g","r","a","p","h">>),
          Str(<<"M","e","m","p","o","o","l">>),
          TargetList(<<Target(Str(<<"m","e","m","p","o","o","l","_","t","x","s","_","p","e","n","d","i","n","g">>)), NonObjectTarget>>))

DocCatalog == {
    File(TRUE, <<P_latency>>),
    File(TRUE, <<P_row, P_peers, P_notes>>),
    File(TRUE, <<P_notes, P_annotated_raw>>),
    File(TRUE, <<P_annotated_escaped, P_backslash>>),
    File(TRUE, <<P_latency, P_annotated_raw, P_peers>>),
    File(TRUE, <<P_peers, P_malformed>>),
    File(FALSE, <<>>),
    Unparsable}

\* ------------------------------------------------------------------------
\* Inputs of the updater specification: panels as json.load returns them
\* ------------------------------------------------------------------------

MaxTargets == 2

MaxPasses == 2

UpdTypes == {Absent, Num(1), Str(<<"r","o","w">>), Str(<<"g","r","a","p","h">>)}

UpdTitles == {
    Absent, Null, Num(7),
    Str(<<>>),
    Str(<<" "," "," ">>),
    Str(<<"N","o","t","e","s">>),
    Str(<<" ","A","c","t","i","v","e"," ","P","e","e","r","s"," ">>),
    Str(<<"M","e","m","p","o","o","l"," ","S","i","z","e">>),
    Str(<<"P","e","e","r","s"," ","U+2014"," ","p","e","e","r"," ","c","o","u","n","t">>)}

UpdTargets == {
    Target(Absent), Target(Num(3)),
    Target(Str(<<" "," ">>)),
    Target(Str(<<" ","r","a","t","e","(","a","_","b","[","1","m","]",")"," ">>)),
    Target(Str(<<"m","e","m","p","o","o","l","_","t","x","s","_","p","e","n","d","i","n","g">>)),
    NonObjectTarget}

UpdTargetValues ==
    {NoTargets, NullTargets, NumTargets(0), NumTargets(5)}
        \cup {TargetList(ts) : ts \in SeqsUpTo(UpdTargets, MaxTargets)}

UpdPanels ==
    {Panel(ty, ti, ta) : ty \in UpdTypes, ti \in UpdTitles, ta \in UpdTargetValues}

\* lines 105-117 on one file: the file as one whole iteration of the loop
\* over paths leaves it (as it was when json.load or a panel raises)
UninterruptedRunFile(file) ==
    IF ~file.valid THEN file
    ELSE LET d == json_load(file).dash
             ps == PanelsOf(d)
             rs == [i \in 1..Len(ps) |-> _update_panel_title(ps[i])]
         IN  IF \E i \in 1..Len(ps) : rs[i].raised THEN file
             ELSE IF \E i \in 1..Len(ps) : rs[i].ret
             THEN json_dump(Dash(d.hasPanels, [i \in 1..Len(ps) |-> rs[i].panel]))
             ELSE file

\* ------------------------------------------------------------------------
\* State
\* ------------------------------------------------------------------------

NumDocs == 2

MaxRuns == 2

VARIABLES
    \* classifier specification: the arguments and the value returned
    clsTitle, clsExprs, clsResult,
    \* updater specification: the panel as given, the panel now, the outcome
    \* of the last call ("none", "true", "false", "raise"), the number of
    \* calls made, the panel before the last call and after the first call
    updInput, updPanel, updRet, updPasses, updBefore, updFirst,
    \* batch specification: the dashboard directory (path -> file)
    files,
    \* main's position and locals
    pc, paths, idx, dash, pidx, changed, changed_files, changed_panels,
    \* the summary line printed: <<changed_panels, changed_files>>
    output,
    \* history: the run number, the directory at first and at the start of
    \* this run, the document as loaded, this run's reads and writes, and
    \* the <<path, panel index>> pairs whose panel an updater call altered,
    \* the paths whose iteration of the loop has ended, and the files one
    \* uninterrupted run over the first directory leaves; whether a run was
    \* killed while a file was open for writing
    run, files0, runFiles, loaded, log, touched, finished, expected, torn

clsVars == <<clsTitle, clsExprs, clsResult>>

updVars == <<updInput, updPanel, updRet, updPasses, updBefore, updFirst>>

localVars == <<paths, idx, dash, pidx, changed, changed_files, changed_panels>>

histVars == <<run, files0, runFiles, loaded, log, touched, finished, expected, torn>>

batchVars == <<files, pc, localVars, output, histVars>>

vars == <<clsVars, updVars, batchVars>>

NotCalled == [called |-> FALSE, desc |-> None]

NoPanel == Panel(Absent, Absent, NoTargets)

NoOutput == <<>>

ClsIdle ==
    /\ clsTitle = <<>>
    /\ clsExprs = <<>>
    /\ clsResult = NotCalled

UpdIdle ==
    /\ updInput = NoPanel
    /\ updPanel = NoPanel
    /\ updRet = "none"
    /\ updPasses = 0
    /\ updBefore = NoPanel
    /\ updFirst = NoPanel

\* main's locals before main runs (and after the process is gone)
LocalsInit ==
    /\ paths = <<>>
    /\ idx = 0
    /\ dash = NoDash
    /\ pidx = 0
    /\ changed = FALSE
    /\ changed_files = 0
    /\ changed_panels = 0

LocalsReset ==
    /\ paths' = <<>>
    /\ idx' = 0
    /\ dash' = NoDash
    /\ pidx' = 0
    /\ changed' = FALSE
    /\ changed_files' = 0
    /\ changed_panels' = 0

BatchIdle ==
    /\ files = <<>>
    /\ pc = "idle"
    /\ LocalsInit
    /\ output = NoOutput
    /\ run = 0
    /\ files0 = <<>>
    /\ runFiles = <<>>
    /\ loaded = NoDash
    /\ log = <<>>
    /\ touched = {}
    /\ finished = {}
    /\ expected = <<>>
    /\ torn = FALSE

\* ------------------------------------------------------------------------
\* Classifier specification: _descriptor_from_exprs on every input
\* ------------------------------------------------------------------------

InitClassifier ==
    /\ clsTitle \in ClsTitles
    /\ clsExprs \in SeqsUpTo(ClsExprs, MaxExprs)
    /\ clsResult = NotCalled
    /\ UpdIdle
    /\ BatchIdle

Classify ==
    /\ ~clsResult.called
    /\ clsResult' = [called |-> TRUE, desc |-> _descriptor_from_exprs(clsTitle, clsExprs)]
    /\ UNCHANGED <<clsTitle, clsExprs, updVars, batchVars>>

NextClassifier == Classify

SpecClassifier == InitClassifier /\ [][NextClassifier]_vars

\* ------------------------------------------------------------------------
\* Updater specification: repeated _update_panel_title calls on one panel
\* ------------------------------------------------------------------------

InitUpdater ==
    /\ updInput \in UpdPanels
    /\ updPanel = updInput
    /\ updRet = "none"
    /\ updPasses = 0
    /\ updBefore = updInput
    /\ updFirst = updInput
    /\ ClsIdle
    /\ BatchIdle

UpdaterCall(r) ==
    /\ updPasses' = updPasses + 1
    /\ updBefore' = updPanel
    /\ updPanel' = r.panel
    /\ updFirst' = IF updPasses = 0 THEN r.panel ELSE updFirst
    /\ UNCHANGED <<updInput, clsVars, batchVars>>

UpdaterReturns ==
    /\ updPasses < MaxPasses
    /\ LET r == _update_panel_title(updPanel)
       IN  /\ ~r.raised
           /\ updRet' = IF r.ret THEN "true" ELSE "false"
           /\ UpdaterCall(r)

UpdaterRaises ==
    /\ updPasses < MaxPasses
    /\ LET r == _update_panel_title(updPanel)
       IN  /\ r.raised
           /\ updRet' = "raise"
           /\ UpdaterCall(r)

NextUpdater == UpdaterReturns \/ UpdaterRaises

SpecUpdater == InitUpdater /\ [][NextUpdater]_vars

\* ------------------------------------------------------------------------
\* Batch specification: main over the dashboard directory, run after run
\* ------------------------------------------------------------------------

Init ==
    /\ \E n \in 0..NumDocs : files \in [1..n -> DocCatalog]
    /\ pc = "start"
    /\ LocalsInit
    /\ output = NoOutput
    /\ run = 1
    /\ files0 = files
    /\ runFiles = files
    /\ loaded = NoDash
    /\ log = <<>>
    /\ touched = {}
    /\ finished = {}
    /\ expected = [d \in DOMAIN files |-> UninterruptedRunFile(files[d])]
    /\ torn = FALSE
    /\ ClsIdle
    /\ UpdIdle

\* paths = sorted(glob.glob(...)), non-empty; the counters start at 0
Start ==
    /\ pc = "start"
    /\ DOMAIN files # {}
    /\ \E g \in GlobResults(DOMAIN files) : paths' = Sorted(g)
    /\ idx' = 1
    /\ changed_files' = 0
    /\ changed_panels' = 0
    /\ pc' = "load"
    /\ UNCHANGED <<files, dash, pidx, changed, output, histVars, clsVars, updVars>>

\* if not paths: raise SystemExit
NoDashboards ==
    /\ pc = "start"
    /\ DOMAIN files = {}
    /\ pc' = "no_dashboards"
    /\ UNCHANGED <<files, localVars, output, histVars, clsVars, updVars>>

\* with open(path) as f: dash = json.load(f); changed = False
LoadDoc ==
    /\ pc = "load"
    /\ LET r == json_load(files[paths[idx]])
       IN  /\ ~r.raised
           /\ dash' = r.dash
           /\ loaded' = r.dash
    /\ changed' = FALSE
    /\ pidx' = 1
    /\ log' = Append(log, <<"read", paths[idx]>>)
    /\ pc' = "panels"
    /\ UNCHANGED <<files, paths, idx, changed_files, changed_panels, output,
                   run, files0, runFiles, touched, finished, expected, torn, clsVars, updVars>>

\* json.load raises: the exception ends the process
LoadRaises ==
    /\ pc = "load"
    /\ json_load(files[paths[idx]]).raised
    /\ log' = Append(log, <<"read", paths[idx]>>)
    /\ pc' = "exception"
    /\ LocalsReset
    /\ UNCHANGED <<files, output, run, files0, runFiles, loaded, touched, finished,
                   expected, torn, clsVars, updVars>>

\* every panel counted, changed or not
CountPanel_every(n, ret) == n + 1

\* if _update_panel_title(panel): changed_panels += 1
CountPanel(n, ret) == IF ret THEN n + 1 ELSE n

\* one iteration of "for panel in dash.get("panels") or []"
UpdatePanel ==
    /\ pc = "panels"
    /\ pidx <= Len(PanelsOf(dash))
    /\ LET r == _update_panel_title(dash.panels[pidx])
       IN  /\ ~r.raised
           /\ dash' = [dash EXCEPT !.panels[pidx] = r.panel]
           /\ changed' = (changed \/ r.ret)
           /\ changed_panels' = CountPanel(changed_panels, r.ret)
           /\ touched' = IF r.panel # dash.panels[pidx]
                         THEN touched \cup {<<paths[idx], pidx>>}
                         ELSE touched
    /\ pidx' = pidx + 1
    /\ UNCHANGED <<files, pc, paths, idx, changed_files, output,
                   run, files0, runFiles, loaded, log, finished, expected, torn, clsVars, updVars>>

\* _update_panel_title raises: the exception ends the process
UpdatePanelRaises ==
    /\ pc = "panels"
    /\ pidx <= Len(PanelsOf(dash))
    /\ _update_panel_title(dash.panels[pidx]).raised
    /\ pc' = "exception"
    /\ LocalsReset
    /\ UNCHANGED <<files, output, histVars, clsVars, updVars>>

\* every document written back
ShouldPersist_always(flag) == TRUE

\* if changed:
ShouldPersist(flag) == flag

\* the loop over paths moves on
NextDoc ==
    /\ idx' = idx + 1
    /\ pc' = IF idx + 1 > Len(paths) THEN "print" ELSE "load"
    /\ finished' = finished \cup {paths[idx]}

\* if changed: open(path, "w"), which truncates the file
OpenForWrite ==
    /\ pc = "panels"
    /\ pidx > Len(PanelsOf(dash))
    /\ ShouldPersist(changed)
    /\ files' = [files EXCEPT ![paths[idx]] = Unparsable]
    /\ log' = Append(log, <<"open", paths[idx]>>)
    /\ pc' = "writing"
    /\ UNCHANGED <<localVars, output, run, files0, runFiles, loaded, touched,
                   finished, expected, torn, clsVars, updVars>>

\* json.dump(dash, f, indent=2, sort_keys=False); f.write("\n"); the file is
\* closed; changed_files += 1
PersistDoc ==
    /\ pc = "writing"
    /\ files' = [files EXCEPT ![paths[idx]] = json_dump(dash)]
    /\ changed_files' = changed_files + 1
    /\ log' = Append(log, <<"write", paths[idx]>>)
    /\ NextDoc
    /\ UNCHANGED <<paths, dash, pidx, changed, changed_panels, output,
                   run, files0, runFiles, loaded, touched, expected, torn,
                   clsVars, updVars>>

\* not changed: the document is not written
SkipDoc ==
    /\ pc = "panels"
    /\ pidx > Len(PanelsOf(dash))
    /\ ~ShouldPersist(changed)
    /\ NextDoc
    /\ UNCHANGED <<files, paths, dash, pidx, changed, changed_files, changed_panels,
                   output, run, files0, runFiles, loaded, log, touched, expected,
                   torn, clsVars, updVars>>

\* print(f"updated {changed_panels} panels across {changed_files} dashboards")
PrintSummary ==
    /\ pc = "print"
    /\ output' = <<changed_panels, changed_files>>
    /\ pc' = "done"
    /\ UNCHANGED <<files, localVars, histVars, clsVars, updVars>>

\* the process is killed between two steps of a run; killed while the file
\* is open for writing, it leaves the file truncated or cut short
Kill ==
    /\ pc \in {"load", "panels", "writing", "print"}
    /\ pc' = "killed"
    /\ torn' = (torn \/ pc = "writing")
    /\ LocalsReset
    /\ UNCHANGED <<files, output, run, files0, runFiles, loaded, log, touched,
                   finished, expected, clsVars, updVars>>

\* the script is started again on the directory as the last run left it
Rerun ==
    /\ pc \in {"done", "killed", "exception", "no_dashboards"}
    /\ run < MaxRuns
    /\ run' = run + 1
    /\ pc' = "start"
    /\ LocalsReset
    /\ output' = NoOutput
    /\ runFiles' = files
    /\ loaded' = NoDash
    /\ log' = <<>>
    /\ touched' = {}
    /\ finished' = {}
    /\ UNCHANGED <<files, files0, expected, torn, clsVars, updVars>>

Next ==
    \/ Start
    \/ NoDashboards
    \/ LoadDoc
    \/ LoadRaises
    \/ UpdatePanel
    \/ UpdatePanelRaises
    \/ OpenForWrite
    \/ PersistDoc
    \/ SkipDoc
    \/ PrintSummary
    \/ Kill
    \/ Rerun

Spec == Init /\ [][Next]_vars

\* ------------------------------------------------------------------------
\* Properties of the classifier (checked under SpecClassifier)
\* ------------------------------------------------------------------------

\* the cascade as an ordered list of (predicate, label) pairs
CascadeRules(title, exprs) ==
    LET joined == JoinLines(exprs)
        lt == StrLower(title)
        toks == MetricTokens(joined)
        InTitle(w) == Contains(lt, w)
    IN  << [hit |-> exprs = <<>>, label |-> None],
           [hit |-> Contains(joined, S_histogram_quantile), label |-> Some(D_p95_latency)],
           [hit |-> Contains(joined, S_time_since), label |-> Some(D_time_since_last)],
           [hit |-> Contains(joined, S_finalization_gap), label |-> Some(D_finalization_gap)],
           [hit |-> \E i \in 1..Len(exprs) :
                        Contains(exprs[i], S_rate) \/ Contains(exprs[i], S_irate),
            label |-> Some(D_events_sec)],
           [hit |-> InTitle(S_throughput) \/ InTitle(S_tps), label |-> Some(D_tx_sec)],
           [hit |-> InTitle(S_errors) \/ InTitle(S_fail), label |-> Some(D_error_rate)],
           [hit |-> InTitle(S_peers), label |-> Some(D_peer_count)],
           [hit |-> InTitle(S_connections), label |-> Some(D_conn_count)],
           [hit |-> InTitle(S_queue) \/ InTitle(S_pending), label |-> Some(D_queue_depth)],
           [hit |-> \E m \in toks : EndsWith(m, S__pending), label |-> Some(D_queue_depth)],
           [hit |-> \E m \in toks : EndsWith(m, S__height), label |-> Some(D_height)],
           [hit |-> \E m \in toks : EndsWith(m, S__slot), label |-> Some(D_slot)],
           [hit |-> \E m \in toks : EndsWith(m, S__epoch), label |-> Some(D_epoch)],
           [hit |-> \E m \in toks : Contains(m, S_connections), label |-> Some(D_conn_count)],
           [hit |-> TRUE, label |-> Some(D_current)] >>

FirstHit(rules) == rules[SetMin({i \in 1..Len(rules) : rules[i].hit})].label

HasBothMarkers(exprs) ==
    /\ \E i \in 1..Len(exprs) : Contains(exprs[i], S_histogram_quantile)
    /\ \E i \in 1..Len(exprs) : Contains(exprs[i], S_rate)

\* the title matches a keyword and no rule on the shape of the query does,
\* while a metric name of the expressions has one of the suffixes
TitleBeatsMetric(rules) ==
    /\ \A i \in 1..5 : ~rules[i].hit
    /\ \E i \in 6..10 : rules[i].hit
    /\ \E i \in 11..15 : rules[i].hit

TitleLabels == {Some(D_tx_sec), Some(D_error_rate), Some(D_peer_count),
                Some(D_conn_count), Some(D_queue_depth)}

\* C1: _descriptor_from_exprs returns the label of the first matching rule
\* of the ordered cascade; expressions with both a histogram_quantile and a
\* rate marker give "p95 latency"; a title keyword match wins over any
\* metric-name suffix match.
C1_FirstMatchingRule ==
    clsResult.called =>
        LET rules == CascadeRules(clsTitle, clsExprs)
        IN  /\ clsResult.desc = FirstHit(rules)
            /\ HasBothMarkers(clsExprs) => clsResult.desc = Some(D_p95_latency)
            /\ TitleBeatsMetric(rules) =>
                   /\ clsResult.desc \in TitleLabels
                   /\ \E i \in 6..10 : rules[i].hit /\ rules[i].label = clsResult.desc

C1_Witness ==
    /\ clsResult.called
    /\ HasBothMarkers(clsExprs)
    /\ clsResult.desc = Some(D_p95_latency)

\* ------------------------------------------------------------------------
\* Properties of the updater (checked under SpecUpdater)
\* ------------------------------------------------------------------------

IsBlank(str) == \A i \in 1..Len(str) : str[i] \in Whitespace

\* a row, or a title that is absent, no string, empty or blank
Ineligible(p) ==
    \/ p.type = Str(<<"r","o","w">>)
    \/ p.title.kind # "str"
    \/ IsBlank(p.title.str)

\* not a row, a non-blank string title without the separator
Eligible(p) == ~Ineligible(p) /\ ~Contains(p.title.str, TITLE_SEP)

\* some target is an object whose expr is a string that is not blank
HasNonBlankExpr(p) ==
    /\ p.targets.kind = "list"
    /\ \E i \in 1..Len(p.targets.items) :
           /\ p.targets.items[i].kind = "obj"
           /\ p.targets.items[i].expr.kind = "str"
           /\ ~IsBlank(p.targets.items[i].expr.str)

\* C2: after any number n >= 1 of passes the title is the title after the
\* first pass; the second and every later pass changes nothing and reports
\* no change (where it raises on malformed targets, it changes nothing
\* either).
C2_AnnotatedAtMostOnce ==
    /\ updPasses >= 1 => updPanel.title = updFirst.title
    /\ updPasses >= 2 =>
           /\ updPanel = updBefore
           /\ \/ updRet = "false"
              \/ updRet = "raise" /\ _collect_exprs(updBefore).raised

C2_Witness ==
    /\ updPasses >= 2
    /\ updFirst.title # updInput.title
    /\ Contains(updPanel.title.str, TITLE_SEP)
    /\ updRet = "false"

\* C3: on a panel that is a row, or whose title is absent, no string, empty
\* or blank, _update_panel_title returns False and leaves the title (and the
\* panel) as it was, whatever the targets are.
C3_IneligibleNeverMutated ==
    (updPasses >= 1 /\ Ineligible(updBefore)) =>
        /\ updRet = "false"
        /\ updPanel.title = updBefore.title
        /\ updPanel = updBefore

C3_Witness ==
    /\ updPasses = 1
    /\ updBefore.type # Str(<<"r","o","w">>)
    /\ updBefore.title.kind = "str"
    /\ updBefore.title.str # <<>>
    /\ IsBlank(updBefore.title.str)
    /\ HasNonBlankExpr(updBefore)
    /\ updRet = "false"

\* C4: on an eligible panel the title changes iff the classifier returns a
\* non-empty descriptor D for the title and the collected expressions, the
\* new title is then the untrimmed original + separator + D and the call
\* returns True; a panel without non-blank expressions is left unchanged and
\* no change is reported.
C4_ChangedIffDescriptor ==
    (updPasses >= 1 /\ Eligible(updBefore)) =>
        LET c == _collect_exprs(updBefore)
            d == _descriptor_from_exprs(updBefore.title.str, c.exprs)
            returnsD == ~c.raised /\ d.some /\ d.val # <<>>
        IN  /\ (updPanel.title # updBefore.title) <=> returnsD
            /\ (updRet = "true") <=> returnsD
            /\ returnsD =>
                   updPanel.title = Str(updBefore.title.str \o TITLE_SEP \o d.val)
            /\ ~HasNonBlankExpr(updBefore) =>
                   /\ ~returnsD
                   /\ ~c.raised => d = None /\ updRet = "false"
                   /\ updPanel = updBefore

C4_Witness ==
    /\ updPasses = 1
    /\ Eligible(updBefore)
    /\ updBefore.title.str # Strip(updBefore.title.str)
    /\ updRet = "true"
    /\ updPanel.title = Str(updBefore.title.str \o TITLE_SEP \o D_events_sec)

\* C7: the collector and the updater have no error outcome: on every panel,
\* malformed fields included, the call completes and returns a boolean.
C7_NoErrorOutcome ==
    updPasses >= 1 => updRet \in {"true", "false"}

\* ------------------------------------------------------------------------
\* Properties of the batch processor (checked under Spec)
\* ------------------------------------------------------------------------

Reads(d) == {i \in 1..Len(log) : log[i] = <<"read", d>>}

Writes(d) == {i \in 1..Len(log) : log[i] = <<"write", d>>}

Written(d) == Writes(d) # {}

Opened(d) == \E i \in 1..Len(log) : log[i] = <<"open", d>>

TouchedIn(d) == {t \in touched : t[1] = d}

\* C5: a document is rewritten iff one of its panels was changed by the
\* updater during the run: no document is opened for writing or written
\* without a changed panel, and every document whose iteration has ended
\* with a changed panel has been written.
C5_RewrittenIffChanged ==
    \A d \in DOMAIN files :
        /\ (Opened(d) \/ Written(d)) => TouchedIn(d) # {}
        /\ d \in finished => (Written(d) <=> TouchedIn(d) # {})
        /\ TouchedIn(d) = {} => files[d] = runFiles[d]

C5_Witness ==
    /\ pc = "done"
    /\ \E d \in DOMAIN files : Written(d) /\ files[d] # runFiles[d]
    /\ \E d \in DOMAIN files : ~Written(d) /\ d \in finished

\* the directory holds a prefix of the sorted documents annotated and the
\* rest untouched
AnnotatedPrefix ==
    \E k \in 0..Cardinality(DOMAIN files) :
        \A d \in DOMAIN files :
            files[d] = IF d <= k THEN expected[d] ELSE files0[d]

Stopped == pc \in {"done", "killed", "exception", "no_dashboards"}

\* C6: whenever a run has stopped (a crash, a fatal error, the end), the
\* directory holds a prefix of the sorted documents annotated and the rest
\* untouched; a complete run that follows ends with the stored documents one
\* uninterrupted run from the first directory produces.
C6_RerunAfterCrash ==
    /\ Stopped => AnnotatedPrefix
    /\ pc = "done" => files = expected

\* C6 without a kill during a write: as long as no run was killed while a
\* file was open for writing, the statement of C6 holds
RerunSafeWithoutTornWrite ==
    ~torn => /\ Stopped => AnnotatedPrefix
             /\ pc = "done" => files = expected

RerunAfterKillReached ==
    /\ pc = "done"
    /\ ~torn
    /\ run >= 2
    /\ runFiles # files0
    /\ files # runFiles

TitleOf(file, i) == DecodeValue(file.panels[i].title)

\* C8: at the end of a successful run the summary gives the number of panels
\* whose title changed during the run and the number of documents rewritten.
C8_TotalsExact ==
    pc = "done" =>
        /\ output = << Cardinality(touched),
                       Cardinality({i \in 1..Len(log) : log[i][1] = "write"}) >>
        /\ output[1] =
               Cardinality({t \in UNION {{<<d, i>> : i \in 1..Len(files[d].panels)} :
                                          d \in DOMAIN files} :
                               TitleOf(files[t[1]], t[2]) # TitleOf(runFiles[t[1]], t[2])})
        /\ output[2] = Cardinality({d \in DOMAIN files : files[d] # runFiles[d]})

C8_Witness ==
    /\ pc = "done"
    /\ Len(output) = 2
    /\ output[2] >= 1
    /\ output[1] > output[2]

\* C9 as stated: in a complete run every document is read exactly once and
\* written exactly once.
C9_ReadAndWrittenExactlyOnce ==
    pc = "done" =>
        \A d \in DOMAIN files : Cardinality(Reads(d)) = 1 /\ Cardinality(Writes(d)) = 1

\* C9 amended: every document is read at most once and written at most once
\* per run, exactly once read in a complete run; documents are taken in
\* sorted order, and a document's write directly follows its own read,
\* before the next document is read.
C9_SequentialSortedOnce ==
    /\ \A d \in DOMAIN files :
           /\ Cardinality(Reads(d)) <= 1
           /\ Cardinality(Writes(d)) <= 1
           /\ pc = "done" => Cardinality(Reads(d)) = 1
    /\ \A i \in 1..Len(log) :
           /\ log[i][1] = "open" => i > 1 /\ log[i - 1] = <<"read", log[i][2]>>
           /\ log[i][1] = "write" => i > 1 /\ log[i - 1] = <<"open", log[i][2]>>
           /\ \A j \in 1..Len(log) : i < j => log[i][2] <= log[j][2]
           /\ log[i][1] = "read" =>
                  \A e \in DOMAIN files :
                      e < log[i][2] => \E j \in 1..(i - 1) : log[j] = <<"read", e>>

C9_Witness ==
    /\ pc = "done"
    /\ Len(log) >= 3
    /\ \E d \in DOMAIN files : Reads(d) # {} /\ Writes(d) = {}
    /\ \E d \in DOMAIN files : Writes(d) # {}

\* documents a and b of path d agree in everything but the titles of the
\* panels an updater call altered
SameButTitles(a, b, d) ==
    /\ a.hasPanels = b.hasPanels
    /\ Len(a.panels) = Len(b.panels)
    /\ \A i \in 1..Len(a.panels) :
           /\ a.panels[i].type = b.panels[i].type
           /\ a.panels[i].targets = b.panels[i].targets
           /\ a.panels[i].title # b.panels[i].title => <<d, i>> \in touched

\* C10: the updater changes nothing of a panel but its title, and main never
\* adds, removes or reorders panels: the document in memory, and a document
\* written back, differ from the document loaded only in the titles of the
\* changed panels; a document never opened for writing is as it was.
C10_OnlyTitlesChange ==
    /\ pc = "panels" => SameButTitles(dash, loaded, paths[idx])
    /\ \A d \in DOMAIN files :
           /\ Written(d) =>
                  SameButTitles(json_load(files[d]).dash, json_load(runFiles[d]).dash, d)
           /\ ~Opened(d) => files[d] = runFiles[d]

C10_Witness ==
    /\ pc = "done"
    /\ \E d \in DOMAIN files :
           /\ Written(d)
           /\ \E i, j \in 1..Len(files[d].panels) :
                  /\ <<d, i>> \in touched
                  /\ <<d, j>> \notin touched
                  /\ files[d].panels[i].targets = runFiles[d].panels[i].targets
                  /\ files[d].panels[i].title # runFiles[d].panels[i].title

====
